---- MODULE Spec2Model ----
(***************************************************************************)
(* Model of app.py (QR code / image sheet generator): the text wrapping    *)
(* routines, the placement geometry of the preview and of the document,    *)
(* the row selection and configuration building of main(), and the page    *)
(* loop of generate_pdf.                                                   *)
(*                                                                         *)
(* Texts are sequences of one-character strings, so that splitting,        *)
(* stripping and slicing are computed as Python computes them.             *)
(* Lengths are integers in exact units: 1/10 mm for canonical lengths,     *)
(* 1/1270 pt for document coordinates (1 mm = 360/127 pt).                 *)
(***************************************************************************)
EXTENDS Integers, Sequences, FiniteSets, TLC

VARIABLES
    wq,      \* arguments of the wrapping call under study
    wres     \* the last wrapping call made and the lines it returned

VARIABLES
    gq,      \* a placement and a page height, for the geometry under study
    gres     \* the last rectangle a backend drew the primary image into

VARIABLES
    df,                  \* the loaded table: a sequence of rows, column -> cell
    start_row,           \* "from row" input (1-based)
    end_row,             \* "to row" input (1-based)
    selected_cols,       \* the multiselect, in selection order
    qr_positions,        \* st.session_state.qr_positions: column -> record
    df_selected,         \* the rows handed to the renderers
    col_configs,         \* what generate_pdf is given, in selected_cols order
    qr_preview_configs,  \* what create_page_preview is given
    preview_ops,         \* what the preview has drawn
    pc,                  \* where the script run / generate_pdf stands
    row_idx,             \* generate_pdf's loop variable
    pages,               \* the pages the canvas has closed, each its drawing ops
    code,                \* the drawing ops of the page under construction
    n_pages              \* the page count generate_pdf returned (-1: none yet)

VARIABLES
    fq,      \* arguments of the single function call under study
    fres     \* what that call returned

VARIABLES
    env,        \* the process: the label font, the progress callback, I/O faults
    tmp_files,  \* the temporary files of generate_pdf that exist
    progress    \* the values the progress callback was called with, in order

VARIABLES
    ss,          \* st.session_state: _active_qr, _last_active_cn, _edit_*
    sidebar,     \* the sidebar inputs: default_qr_size, max_x, max_y
    calc_height  \* the height the editor shows for the active column

wrapVars == <<wq, wres>>
callVars == <<fq, fres>>
envVars == <<env, tmp_files, progress>>
uiVars == <<ss, sidebar, calc_height>>
geomVars == <<gq, gres>>
mainVars == <<df, start_row, end_row, selected_cols, qr_positions, df_selected,
              col_configs, qr_preview_configs, preview_ops>>
pdfVars == <<pc, row_idx, pages, code, n_pages>>
vars == <<wq, wres, gq, gres, df, start_row, end_row, selected_cols, qr_positions,
          df_selected, col_configs, qr_preview_configs, preview_ops,
          pc, row_idx, pages, code, n_pages, fq, fres, env, tmp_files, progress,
          ss, sidebar, calc_height>>

\* ------------------------------------------------------------------ bounds
\* longest text handed to a wrapping routine
MaxLen == 6
\* most rows of a table
MaxRows == 3
\* largest magnitude of a float cell, in tenths
MaxTenths == 25
\* longest text of one repeated character handed to a wrapping routine
MaxRun == 26

\* ------------------------------------------------------------- text helpers
Alphabet == {"a", "i", " "}

Texts == UNION {[1..k -> Alphabet] : k \in 0..MaxLen}

\* texts without a space whose characters all measure the same
Runs == {[i \in 1..n |-> c] : n \in 0..MaxRun, c \in {"a", "i"}}

HasSpace(s) == \E k \in 1..Len(s) : s[k] = " "

\* str.strip(): leading and trailing whitespace removed
RECURSIVE LStrip(_)
LStrip(s) == IF s # <<>> /\ s[1] = " " THEN LStrip(Tail(s)) ELSE s

RECURSIVE RStrip(_)
RStrip(s) ==
    IF s # <<>> /\ s[Len(s)] = " " THEN RStrip(SubSeq(s, 1, Len(s) - 1)) ELSE s

Strip(s) == RStrip(LStrip(s))

\* str.split(" "): split at every single space, empty tokens kept
RECURSIVE SplitSp(_)
SplitSp(s) ==
    IF ~HasSpace(s) THEN <<s>>
    ELSE LET k == CHOOSE j \in 1..Len(s) :
                      s[j] = " " /\ \A l \in 1..(j - 1) : s[l] # " "
         IN  <<SubSeq(s, 1, k - 1)>> \o SplitSp(SubSeq(s, k + 1, Len(s)))

\* str.split(): split at whitespace runs, no empty tokens
SplitWS(s) == SelectSeq(SplitSp(s), LAMBDA t : t # <<>>)

\* "".join(parts) and " ".join(parts)
RECURSIVE Concat(_)
Concat(parts) == IF parts = <<>> THEN <<>> ELSE Head(parts) \o Concat(Tail(parts))

RECURSIVE JoinSp(_)
JoinSp(parts) ==
    IF parts = <<>> THEN <<>>
    ELSE IF Len(parts) = 1 THEN parts[1]
    ELSE parts[1] \o <<" ">> \o JoinSp(Tail(parts))

\* ------------------------------------------------------------ font metrics
\* Glyph advance in 1/1000 em.  Helvetica: the standard AFM widths that
\* reportlab's stringWidth uses; Courier: 600 for every glyph.
FontNames == {"Helvetica", "Courier", "Unregistered"}

Glyph(font, ch) ==
    IF font = "Helvetica"
    THEN (IF ch = "a" THEN 556 ELSE IF ch = "i" THEN 222 ELSE 278)
    ELSE 600

RECURSIVE GlyphSum(_, _)
GlyphSum(font, s) ==
    IF s = <<>> THEN 0 ELSE Glyph(font, s[1]) + GlyphSum(font, Tail(s))

\* ------------------------------------------------------- wrap_text_for_pdf
\* measure(s) of wrap_text_for_pdf, in 1/127000 pt: stringWidth, or
\* len(s) * font_size * 0.5 when stringWidth raises (font not registered)
\* stringWidth never consulted: every character counted as half an em
MeasurePdf_HalfEm(s, font_name, font_size) == Len(s) * font_size * 500 * 127

MeasurePdf(s, font_name, font_size) ==
    IF font_name = "Unregistered"
    THEN Len(s) * font_size * 500 * 127
    ELSE GlyphSum(font_name, s) * font_size * 127

\* fits: [kind, font, size, limit]; kind "pt" measures as wrap_text_for_pdf
\* does, kind "px" as measure_px of the rasterizers does (in 1/1000 px)
Fits(s, fits) ==
    IF fits.kind = "pt"
    THEN MeasurePdf(s, fits.font, fits.size) <= fits.limit
    ELSE GlyphSum(fits.font, s) * fits.size <= fits.limit * 1000

\* the greedy loop: candidate = (current + sep + item).strip() for words,
\* current + char for characters; flush current when the candidate overflows
RECURSIVE GreedyLoop(_, _, _, _, _, _)
\* the item measured instead of the candidate line
GreedyLoop_MeasuresItem(items, k, lines, current, wordMode, fits) ==
    IF k > Len(items)
    THEN (IF current # <<>> THEN Append(lines, current) ELSE lines)
    ELSE LET item == items[k]
             candidate == IF wordMode THEN Strip(current \o <<" ">> \o item)
                          ELSE current \o item
         IN  IF Fits(item, fits)
             THEN GreedyLoop(items, k + 1, lines, candidate, wordMode, fits)
             ELSE GreedyLoop(items, k + 1,
                             IF current # <<>> THEN Append(lines, current) ELSE lines,
                             item, wordMode, fits)

GreedyLoop(items, k, lines, current, wordMode, fits) ==
    IF k > Len(items)
    THEN (IF current # <<>> THEN Append(lines, current) ELSE lines)
    ELSE LET item == items[k]
             candidate == IF wordMode THEN Strip(current \o <<" ">> \o item)
                          ELSE current \o item
         IN  IF Fits(candidate, fits)
             THEN GreedyLoop(items, k + 1, lines, candidate, wordMode, fits)
             ELSE GreedyLoop(items, k + 1,
                             IF current # <<>> THEN Append(lines, current) ELSE lines,
                             item, wordMode, fits)

Chars(s) == [k \in 1..Len(s) |-> <<s[k]>>]

\* the fallback forgotten: the list is returned as built
OrText_NoFallback(lines, text) == lines

\* lines or [text]
OrText(lines, text) == IF lines = <<>> THEN <<text>> ELSE lines

\* max_width is in 1/127000 pt
wrap_text_for_pdf(text, font_name, font_size, max_width) ==
    LET fits == [kind |-> "pt", font |-> font_name, size |-> font_size,
                 limit |-> max_width]
    IN  IF HasSpace(text)
        THEN OrText(GreedyLoop(SplitWS(text), 1, <<>>, <<>>, TRUE, fits), text)
        ELSE OrText(GreedyLoop(Chars(text), 1, <<>>, <<>>, FALSE, fits), text)

\* ------------------------------------- render_thai_text_image / _pil (wrap)
Max(a, b) == IF a >= b THEN a ELSE b
Min(a, b) == IF a <= b THEN a ELSE b

\* pixel_size = max(min_px, int(font_size_pt * render_scale)),
\* mm_per_px = font_size_pt * 0.353 / pixel_size,
\* target_w_px = max(20, int(width_mm / mm_per_px))
PixelSize(font_size_pt, render_scale, min_px) ==
    Max(min_px, font_size_pt * render_scale)

TargetWPx(font_size_pt, width_mm, pixel_size) ==
    Max(20, (width_mm * pixel_size * 1000) \div (font_size_pt * 353))

\* the line list both rasterizers build before drawing (font loaded)
RasterWrap(text, font, font_size_pt, width_mm, render_scale, min_px) ==
    LET pixel_size == PixelSize(font_size_pt, render_scale, min_px)
        fits == [kind |-> "px", font |-> font, size |-> pixel_size,
                 limit |-> TargetWPx(font_size_pt, width_mm, pixel_size)]
        lines == IF HasSpace(text)
                 THEN GreedyLoop(SplitSp(text), 1, <<>>, <<>>, TRUE, fits)
                 ELSE GreedyLoop(Chars(text), 1, <<>>, <<>>, FALSE, fits)
    IN  OrText(lines, text)

render_thai_text_image_lines(text, font, font_size_pt, width_mm) ==
    RasterWrap(text, font, font_size_pt, width_mm, 8, 12)

render_thai_text_pil_lines(text, font, font_size_pt, width_mm) ==
    RasterWrap(text, font, font_size_pt, width_mm, 12, 16)

\* ---------------------------------------------------- textwrap.wrap(text, w)
\* Python's textwrap with its defaults (break_long_words, drop_whitespace),
\* on texts of letters and spaces: chunks are the maximal runs of spaces and
\* of non-spaces.
RECURSIVE RunLen(_, _)
RunLen(s, sp) ==
    IF s # <<>> /\ ((s[1] = " ") = sp) THEN 1 + RunLen(Tail(s), sp) ELSE 0

RECURSIVE Chunks(_)
Chunks(s) ==
    IF s = <<>> THEN <<>>
    ELSE LET n == RunLen(s, s[1] = " ")
         IN  <<SubSeq(s, 1, n)>> \o Chunks(SubSeq(s, n + 1, Len(s)))

IsBlank(chunk) == Strip(chunk) = <<>>

\* the inner while of _wrap_chunks: chunks that fit go onto the line
RECURSIVE FillLine(_, _, _, _)
FillLine(chunks, cur_line, cur_len, width) ==
    IF chunks # <<>> /\ cur_len + Len(chunks[1]) <= width
    THEN FillLine(Tail(chunks), Append(cur_line, chunks[1]),
                  cur_len + Len(chunks[1]), width)
    ELSE [cur_line |-> cur_line, cur_len |-> cur_len, chunks |-> chunks]

\* _handle_long_word with break_long_words: the chunk is cut at space_left
HandleLongWord(st, width) ==
    IF st.chunks # <<>> /\ Len(st.chunks[1]) > width
    THEN LET space_left == IF width < 1 THEN 1 ELSE width - st.cur_len
             chunk == st.chunks[1]
         IN  [cur_line |-> Append(st.cur_line, SubSeq(chunk, 1, space_left)),
              cur_len |-> st.cur_len,
              chunks |-> <<SubSeq(chunk, space_left + 1, Len(chunk))>>
                         \o Tail(st.chunks)]
    ELSE st

RECURSIVE WrapChunks(_, _, _)
WrapChunks(chunks, lines, width) ==
    IF chunks = <<>> THEN lines
    ELSE LET start == IF IsBlank(chunks[1]) /\ lines # <<>>
                      THEN Tail(chunks) ELSE chunks
             st == HandleLongWord(FillLine(start, <<>>, 0, width), width)
             cur == IF st.cur_line # <<>> /\ IsBlank(st.cur_line[Len(st.cur_line)])
                    THEN SubSeq(st.cur_line, 1, Len(st.cur_line) - 1)
                    ELSE st.cur_line
         IN  WrapChunks(st.chunks,
                        IF cur # <<>> THEN Append(lines, Concat(cur)) ELSE lines,
                        width)

TextwrapWrap(text, width) == WrapChunks(Chunks(text), <<>>, width)

\* --------------------------------------------------- wrap_text_for_preview
\* char_w_mm = max(0.5, font_size_pt * 0.353 * 0.55), in 1/100000 mm;
\* chars_per_line = max(3, int(width_mm / char_w_mm))
CharsPerLine(font_size_pt, width_mm) ==
    Max(3, (width_mm * 100000) \div Max(50000, font_size_pt * 19415))

\* [text[i:i + n] for i in range(0, len(text), n)]
RECURSIVE Slices(_, _)
Slices(s, n) ==
    IF s = <<>> THEN <<>>
    ELSE <<SubSeq(s, 1, Min(n, Len(s)))>> \o Slices(SubSeq(s, n + 1, Len(s)), n)

wrap_text_for_preview(text, font_size_pt, width_mm) ==
    LET chars_per_line == CharsPerLine(font_size_pt, width_mm)
    IN  IF HasSpace(text)
        THEN OrText(TextwrapWrap(text, chars_per_line), text)
        ELSE OrText(Slices(text, chars_per_line), text)


\* ---------------------------------------------------------------- geometry
\* reportlab.lib.units.mm = 72 / 25.4 pt; with lengths in 1/10 mm and points
\* in 1/1270 pt, 1/10 mm is 360 units
MmUnits == 360

\* generate_pdf lines 503-506 and the drawImage call: the rectangle in the
\* document's own coordinates (origin bottom-left, y up), anchored at its
\* bottom-left corner
\* the element height not subtracted: the raw top-left y, flipped
DocYPt_NoHeight(cfg, page_h) == page_h - cfg.y_mm * 10 * MmUnits

DocYPt(cfg, page_h) == page_h - cfg.y_mm * 10 * MmUnits - cfg.height_dmm * MmUnits

DocBox(cfg, page_h) ==
    [x_pt |-> cfg.x_mm * 10 * MmUnits,
     y_pt |-> DocYPt(cfg, page_h),
     w_pt |-> cfg.width_mm * 10 * MmUnits,
     h_pt |-> cfg.height_dmm * MmUnits]

\* create_page_preview line 386: extent=[x + 0.5, x + w - 0.5, y + h - 0.5,
\* y + 0.5] on axes whose y runs downward, in 1/10 mm
PreviewExtent(cfg) ==
    [left   |-> cfg.x_mm * 10 + 5,
     right  |-> (cfg.x_mm + cfg.width_mm) * 10 - 5,
     bottom |-> cfg.y_mm * 10 + cfg.height_dmm - 5,
     top    |-> cfg.y_mm * 10 + 5]

\* ------------------------------------------------- the wrapping routines run
FontSizes == {7, 20, 72}
LabelWidthsMm == {5, 20}

WrapQueries == [text : Texts \cup Runs, font : FontNames, size : FontSizes,
                width : LabelWidthsMm]

NoCall == [fn |-> "none", ok |-> FALSE, lines |-> <<>>]

WrapIdle == wq = [text |-> <<>>, font |-> "Helvetica", size |-> 7, width |-> 5]
            /\ wres = NoCall

MainIdle ==
    /\ df = <<>> /\ start_row = 1 /\ end_row = 1 /\ selected_cols = <<>>
    /\ qr_positions = <<>> /\ df_selected = <<>> /\ col_configs = <<>>
    /\ qr_preview_configs = <<>> /\ preview_ops = <<>>
    /\ pc = "idle" /\ row_idx = 0 /\ pages = <<>> /\ code = <<>> /\ n_pages = -1

CallIdle == fq = [fn |-> "none"] /\ fres = [fn |-> "none"]

\* the process as generate_pdf's defaults have it: the label font found and
\* loadable, no progress callback, no I/O fault
EnvQuiet == [thai_font |-> "ok", callback |-> FALSE, fault |-> "none"]

EnvIdle == env = EnvQuiet /\ tmp_files = {} /\ progress = <<>>

UiIdle == ss = <<>> /\ sidebar = <<>> /\ calc_height = 0

NoBox == [backend |-> "none", left |-> 0, right |-> 0, top |-> 0, bottom |-> 0]

GeomIdle ==
    /\ gq = [x |-> 0, y |-> 0, width |-> 3, ratio10 |-> 10, page_h |-> 0]
    /\ gres = NoBox

WrapInit ==
    /\ wq \in WrapQueries /\ wres = NoCall
    /\ MainIdle /\ GeomIdle /\ CallIdle /\ EnvIdle /\ UiIdle

\* generate_pdf's call: the width is label_width_mm * mm, in 1/127000 pt
CallWrapPdf ==
    /\ wres' = [fn |-> "wrap_text_for_pdf", ok |-> TRUE,
                lines |-> wrap_text_for_pdf(wq.text, wq.font, wq.size,
                                            wq.width * 360000)]
    /\ UNCHANGED <<wq, geomVars, mainVars, pdfVars, callVars, envVars, uiVars>>

CallWrapPreview ==
    /\ wres' = [fn |-> "wrap_text_for_preview", ok |-> TRUE,
                lines |-> wrap_text_for_preview(wq.text, wq.size, wq.width)]
    /\ UNCHANGED <<wq, geomVars, mainVars, pdfVars, callVars, envVars, uiVars>>

\* ImageFont.truetype raises for a font that cannot be loaded: (None, 0, 0)
CallRasterImage ==
    /\ wres' = IF wq.font = "Unregistered"
               THEN [fn |-> "render_thai_text_image", ok |-> FALSE, lines |-> <<>>]
               ELSE [fn |-> "render_thai_text_image", ok |-> TRUE,
                     lines |-> render_thai_text_image_lines(wq.text, wq.font,
                                                            wq.size, wq.width)]
    /\ UNCHANGED <<wq, geomVars, mainVars, pdfVars, callVars, envVars, uiVars>>

CallRasterPil ==
    /\ wres' = IF wq.font = "Unregistered"
               THEN [fn |-> "render_thai_text_pil", ok |-> FALSE, lines |-> <<>>]
               ELSE [fn |-> "render_thai_text_pil", ok |-> TRUE,
                     lines |-> render_thai_text_pil_lines(wq.text, wq.font,
                                                          wq.size, wq.width)]
    /\ UNCHANGED <<wq, geomVars, mainVars, pdfVars, callVars, envVars, uiVars>>

WrapNext == CallWrapPdf \/ CallWrapPreview \/ CallRasterImage \/ CallRasterPil

SpecWrap == WrapInit /\ [][WrapNext]_vars

\* ------------------------------------------------------------ table cells
\* A cell is missing (None / NaN), a string, or a float given in tenths.
NA == [k |-> "na", s |-> "", n |-> 0]
Str(t) == [k |-> "str", s |-> t, n |-> 0]
Flt(tenths) == [k |-> "float", s |-> "", n |-> tenths]

\* an int cell and a bool cell
IntCell(i) == [k |-> "int", s |-> "", n |-> i]
BoolCell(b) == [k |-> "bool", s |-> "", n |-> IF b THEN 1 ELSE 0]

\* str(val): a float prints its integer part, a point and its decimals (at
\* least one), with the sign in front
PyStr(val) ==
    IF val.k = "str" THEN val.s
    ELSE IF val.k = "int" THEN ToString(val.n)
    ELSE IF val.k = "bool" THEN (IF val.n = 1 THEN "True" ELSE "False")
    ELSE LET a == IF val.n < 0 THEN 0 - val.n ELSE val.n
         IN  (IF val.n < 0 THEN "-" ELSE "")
                 \o ToString(a \div 10) \o "." \o ToString(a % 10)

\* the test for a whole float forgotten: every value printed by str
smart_str_NoWholeTest(val) == IF val.k = "na" THEN "" ELSE PyStr(val)

\* pd.isna(val) or val is None -> ""; a whole float prints as its integer;
\* everything else prints as str(val)
smart_str(val) ==
    IF val.k = "na" THEN ""
    ELSE IF val.k = "float" /\ val.n % 10 = 0 THEN ToString(val.n \div 10)
    ELSE PyStr(val)

\* generate_pdf: pd.isna(raw) or raw is None or raw == ""
IsEmptyRaw(raw) == raw.k = "na" \/ (raw.k = "str" /\ raw.s = "")

\* the files on disk: os.path.isfile(value) and value ends in .png/.jpg/.jpeg;
\* bad.png is a file that no image reader can decode
IsImageFile(value) == value \in {"good.png", "bad.png"}
Unreadable(value) == value = "bad.png"

TableCols == {"A", "B"}

\* the text column B holds on row i (1-based)
RowLabel(i) == "L" \o ToString(i)

\* ------------------------------------------------------- placement records
\* st.session_state.qr_positions[cn] as main creates it (lines 850-862)
default_qr_size == 30
default_label_size == 7
max_y == 297

\* the lower clamp forgotten: y may fall above the page
NewPositionFor_NoClamp(cn, i, ratio10, dqs, my) ==
    [x |-> 10,
     y |-> Min(10 + i * (dqs + 20), my - dqs),
     width |-> dqs,
     ratio10 |-> ratio10,
     label |-> FALSE,
     label_col |-> cn,
     label_row_offset |-> 0,
     label_x_offset |-> 0,
     label_font_size |-> default_label_size,
     label_width_mm |-> dqs,
     label_align |-> "center"]

\* the record of the i-th selected column (0-based) for a default size dqs
\* and a page of height my
NewPositionFor(cn, i, ratio10, dqs, my) ==
    [x |-> 10,
     y |-> Max(0, Min(10 + i * (dqs + 20), my - dqs)),
     width |-> dqs,
     ratio10 |-> ratio10,
     label |-> FALSE,
     label_col |-> cn,
     label_row_offset |-> 0,
     label_x_offset |-> 0,
     label_font_size |-> default_label_size,
     label_width_mm |-> dqs,
     label_align |-> "center"]

\* with the sidebar left at its defaults
NewPosition(cn, i, ratio10) ==
    NewPositionFor(cn, i, ratio10, default_qr_size, max_y)

\* get_image_aspect_ratio(first_val), in tenths: height / width of a readable
\* image file (good.png is twice as wide as high), 1.0 for anything else
get_image_aspect_ratio(val) ==
    IF val.k = "str" /\ val.s = "good.png" THEN 5 ELSE 10

\* valid_vals = df_selected[col].dropna(); valid_vals.iloc[0] when there is one
ValidRows(dfs, col) == {r \in 1..Len(dfs) : dfs[r][col].k # "na"}

FirstValid(dfs, col) ==
    CHOOSE r \in ValidRows(dfs, col) : \A q \in ValidRows(dfs, col) : r <= q

DiscoveredRatio(dfs, col) ==
    IF ValidRows(dfs, col) = {} THEN 10
    ELSE get_image_aspect_ratio(dfs[FirstValid(dfs, col)][col])

\* ----------------------------------------------- main: the row selection
\* df.iloc[start_row - 1 : end_row]
ILocSlice(tbl, first, last) == SubSeq(tbl, first, Min(last, Len(tbl)))

\* .dropna(how="all", subset=selected_cols): a row goes when every selected
\* column is missing
AllMissing(row, selected) == \A k \in 1..Len(selected) : row[selected[k]].k = "na"

\* dropna(how="any"): a row goes when some selected column is missing
DropNaAny(rows, selected) ==
    SelectSeq(rows, LAMBDA row :
                  \A k \in 1..Len(selected) : row[selected[k]].k # "na")

DropNaAll(rows, selected) ==
    SelectSeq(rows, LAMBDA row : ~AllMissing(row, selected))

SelectedRows(tbl, first, last, selected) ==
    DropNaAll(ILocSlice(tbl, first, last), selected)

\* ------------------------------------- main: col_configs / preview configs
\* the value of row 0 taken instead of the first one present
PreviewSampleValue_Row0(dfs, col) == smart_str(dfs[1][col])

\* lines 1032-1033: the value the preview shows for a column
PreviewSampleValue(dfs, col) ==
    IF ValidRows(dfs, col) = {} THEN ""
    ELSE smart_str(dfs[FirstValid(dfs, col)][col])

\* lines 1035-1044: the label text the preview shows
PreviewLabelValue(dfs, p, sv) ==
    IF Len(dfs) > 0 /\ p.label_col \in TableCols
    THEN LET preview_idx == 0 + p.label_row_offset
         IN  IF 0 <= preview_idx /\ preview_idx < Len(dfs)
             THEN smart_str(dfs[preview_idx + 1][p.label_col])
             ELSE ""
    ELSE sv

\* the height taken for the width: the ratio ignored
ColConfig_SquareHeight(cn, p) ==
    [col_name |-> cn,
     x_mm |-> p.x,
     y_mm |-> p.y,
     width_mm |-> p.width,
     height_dmm |-> p.width * 10,
     show_label |-> p.label,
     label_col |-> p.label_col,
     label_row_offset |-> p.label_row_offset,
     label_font_size |-> p.label_font_size,
     label_x_offset |-> p.label_x_offset,
     label_width_mm |-> p.label_width_mm,
     label_align |-> p.label_align]

\* lines 1049-1061
ColConfig(cn, p) ==
    [col_name |-> cn,
     x_mm |-> p.x,
     y_mm |-> p.y,
     width_mm |-> p.width,
     height_dmm |-> p.width * p.ratio10,
     show_label |-> p.label,
     label_col |-> p.label_col,
     label_row_offset |-> p.label_row_offset,
     label_font_size |-> p.label_font_size,
     label_x_offset |-> p.label_x_offset,
     label_width_mm |-> p.label_width_mm,
     label_align |-> p.label_align]

\* lines 1063-1078
PreviewConfig(dfs, cn, p) ==
    LET sv == PreviewSampleValue(dfs, cn)
    IN  [col_name |-> cn,
         x_mm |-> p.x,
         y_mm |-> p.y,
         width_mm |-> p.width,
         height_dmm |-> p.width * p.ratio10,
         value |-> sv,
         label_value |-> PreviewLabelValue(dfs, p, sv),
         show_label |-> p.label,
         label_font_size |-> p.label_font_size,
         label_x_offset |-> p.label_x_offset,
         label_width_mm |-> p.label_width_mm,
         label_align |-> p.label_align]

\* ------------------------------------------------------------ drawing ops
\* What a backend has drawn: the primary content of a column (a file image,
\* an encoded symbol, or the "IMG/QR" placeholder) or its label text.
DrawOp(op, col, row, text) == [op |-> op, col |-> col, row |-> row, text |-> text]

\* the label rasterizers (render_thai_text_image / render_thai_text_pil) as
\* their callers see them: (None, 0, 0) when ImageFont.truetype raises, a
\* bitmap of positive size otherwise (the canvas is target_w_px + 16 pixels
\* wide and at least pixel_size high)
Rasterize(thai_font) ==
    IF thai_font = "ok" THEN [bitmap |-> TRUE, tw |-> 1, th |-> 1]
    ELSE [bitmap |-> FALSE, tw |-> 0, th |-> 0]

\* the fallback forgotten: nothing is drawn when no bitmap was rendered
LabelPath_NoFallback(col, row, text, rendered) ==
    IF rendered THEN <<DrawOp("label_image", col, row, text)>> ELSE <<>>

\* the two ways a label is drawn: the rasterized bitmap, or, "if not
\* rendered", the lines of the backend's own text drawing
LabelPath(col, row, text, rendered) ==
    IF rendered THEN <<DrawOp("label_image", col, row, text)>>
    ELSE <<DrawOp("label_text", col, row, text)>>

\* create_page_preview lines 421-444: rendered
PreviewRendered ==
    /\ env.thai_font # "none"
    /\ LET r == Rasterize(env.thai_font)
       IN  r.bitmap /\ r.tw > 0 /\ r.th > 0

\* generate_pdf lines 533-557: rendered_pdf
DocRendered ==
    /\ env.thai_font # "none"
    /\ LET r == Rasterize(env.thai_font)
       IN  r.bitmap /\ r.tw > 0

\* ---------------------------------------------------- create_page_preview
\* lines 376-391: the image or the symbol, the placeholder when reading fails
PreviewPrimary(cfg, value) ==
    IF IsImageFile(value)
    THEN (IF Unreadable(value)
          THEN DrawOp("placeholder", cfg.col_name, 0, value)
          ELSE DrawOp("image", cfg.col_name, 0, value))
    ELSE DrawOp("qr", cfg.col_name, 0, value)

\* one turn of the loop over qr_configs (lines 354-466)
PreviewPlacement(cfg) ==
    LET value == smart_str(Str(cfg.value))
        label_value == smart_str(Str(cfg.label_value))
    IN  IF value = "" THEN <<>>
        ELSE <<PreviewPrimary(cfg, value)>>
             \o (IF cfg.show_label
                 THEN <<DrawOp("label", cfg.col_name, 0, label_value)>>
                      \o LabelPath(cfg.col_name, 0, label_value, PreviewRendered)
                 ELSE <<>>)

RECURSIVE PreviewOps(_, _)
PreviewOps(cfgs, j) ==
    IF j > Len(cfgs) THEN <<>>
    ELSE PreviewPlacement(cfgs[j]) \o PreviewOps(cfgs, j + 1)

create_page_preview(cfgs) == PreviewOps(cfgs, 1)

\* ------------------------------------------------------------ generate_pdf
\* the lower bound test forgotten: a negative index counts from the end
DocLabelValue_NoLowerBound(dfs, cfg, ridx) ==
    LET target_row_idx == ridx + cfg.label_row_offset
    IN  IF cfg.label_col \in TableCols /\ target_row_idx < Len(dfs)
           /\ Len(dfs) + target_row_idx >= 0
        THEN smart_str(dfs[(IF target_row_idx < 0
                            THEN Len(dfs) + target_row_idx
                            ELSE target_row_idx) + 1][cfg.label_col])
        ELSE smart_str(Str(""))

\* lines 519-526: the label text of a placement on the page of row ridx
DocLabelValue(dfs, cfg, ridx) ==
    LET target_ridx == ridx + cfg.label_row_offset
    IN  IF cfg.label_col \in TableCols
           /\ 0 <= target_ridx /\ target_ridx < Len(dfs)
        THEN smart_str(dfs[target_ridx + 1][cfg.label_col])
        ELSE smart_str(Str(""))

\* lines 508-516: c.drawImage of an unreadable file raises, and nothing in
\* generate_pdf catches it
DocPrimaryRaises(value) == IsImageFile(value) /\ Unreadable(value)

DocPrimary(cfg, ridx, value) ==
    IF IsImageFile(value)
    THEN DrawOp("image", cfg.col_name, ridx, value)
    ELSE DrawOp("qr", cfg.col_name, ridx, value)

\* a temporary file of generate_pdf: tempfile.NamedTemporaryFile(suffix=".png",
\* delete=False) of lines 512 (the symbol) and 552 (the rasterized label)
TmpFile(ridx, col, kind) == [row |-> ridx, col |-> col, kind |-> kind]

\* lines 512-516: the symbol's file is written, drawn and unlinked; when the
\* write or the draw raises, the unlink is not reached
SymbolIoRaises(value) == ~IsImageFile(value) /\ env.fault = "symbol_io"

\* lines 552-556: the same for the label's bitmap
LabelIoRaises(cfg) == cfg.show_label /\ DocRendered /\ env.fault = "label_io"

\* one turn of the loop over col_configs (lines 497-573): what is drawn,
\* whether an exception left the turn, and the temporary files left behind
DocPlacement(dfs, cfg, ridx) ==
    LET raw == dfs[ridx + 1][cfg.col_name]
        value == smart_str(raw)
        label_value == DocLabelValue(dfs, cfg, ridx)
    IN  IF IsEmptyRaw(raw) THEN [ops |-> <<>>, raised |-> FALSE, tmp |-> {}]
        ELSE IF DocPrimaryRaises(value)
        THEN [ops |-> <<>>, raised |-> TRUE, tmp |-> {}]
        ELSE IF SymbolIoRaises(value)
        THEN [ops |-> <<>>, raised |-> TRUE,
              tmp |-> {TmpFile(ridx, cfg.col_name, "symbol")}]
        ELSE IF LabelIoRaises(cfg)
        THEN [ops |-> <<DocPrimary(cfg, ridx, value)>>, raised |-> TRUE,
              tmp |-> {TmpFile(ridx, cfg.col_name, "label")}]
        ELSE [ops |-> <<DocPrimary(cfg, ridx, value)>>
                      \o (IF cfg.show_label
                          THEN <<DrawOp("label", cfg.col_name, ridx, label_value)>>
                               \o LabelPath(cfg.col_name, ridx, label_value,
                                            DocRendered)
                          ELSE <<>>),
              raised |-> FALSE, tmp |-> {}]

\* the placements of one row in col_configs order, up to the first that raises
RECURSIVE DocRow(_, _, _, _)
DocRow(dfs, cfgs, ridx, j) ==
    IF j > Len(cfgs) THEN [ops |-> <<>>, raised |-> FALSE, tmp |-> {}]
    ELSE LET one == DocPlacement(dfs, cfgs[j], ridx)
         IN  IF one.raised THEN one
             ELSE LET rest == DocRow(dfs, cfgs, ridx, j + 1)
                  IN  [ops |-> one.ops \o rest.ops, raised |-> rest.raised,
                       tmp |-> one.tmp \cup rest.tmp]

\* the value the progress callback is given after row ridx (line 576), as
\* the pair <<numerator, denominator>> of (row_idx + 1) / total_rows
\* the row index itself reported, one too few
ProgressValue_RowIdx(ridx, total_rows) == <<ridx, total_rows>>

ProgressValue(ridx, total_rows) == <<ridx + 1, total_rows>>

\* reportlab Canvas.showPage(): the page under construction is closed
ShowPage(pgs, cur) == Append(pgs, cur)

\* reportlab Canvas.save(): "If there is current data a ShowPage is executed
\* automatically" -- the open page is closed only when something was drawn
\* on it
CanvasSave(pgs, cur) == IF cur # <<>> THEN ShowPage(pgs, cur) ELSE pgs

\* --------------------------------------------------- the script run of main
\* rows of a table of n rows: column A from cellsA, column B missing on the
\* rows of m and the row's own text elsewhere
Tables(n, cellsA) ==
    {[i \in 1..n |-> [A |-> a[i],
                      B |-> IF i \in m THEN NA ELSE Str(RowLabel(i))]] :
        a \in [1..n -> cellsA], m \in SUBSET (1..n)}

Selections == {<<"A">>, <<"A", "B">>}

\* lines 806-815
SelectRows ==
    /\ pc = "select"
    /\ IF start_row > end_row
       THEN pc' = "stopped" /\ UNCHANGED df_selected
       ELSE /\ df_selected' = SelectedRows(df, start_row, end_row, selected_cols)
            /\ pc' = IF Len(df_selected') = 0 THEN "stopped" ELSE "positions"
    /\ UNCHANGED <<df, start_row, end_row, selected_cols, qr_positions,
                   col_configs, qr_preview_configs, preview_ops,
                   row_idx, pages, code, n_pages, wrapVars, geomVars, callVars, envVars, uiVars>>

\* lines 840-862: a record for every selected column that has none yet
CreatePositions ==
    /\ pc = "positions"
    /\ qr_positions' =
          [cn \in DOMAIN qr_positions
                  \cup {selected_cols[i] : i \in 1..Len(selected_cols)} |->
              IF cn \in DOMAIN qr_positions THEN qr_positions[cn]
              ELSE LET i == CHOOSE k \in 1..Len(selected_cols) :
                                selected_cols[k] = cn
                   IN  NewPosition(cn, i - 1, DiscoveredRatio(df_selected, cn))]
    /\ pc' = "configure"
    /\ UNCHANGED <<df, start_row, end_row, selected_cols, df_selected,
                   col_configs, qr_preview_configs, preview_ops,
                   row_idx, pages, code, n_pages, wrapVars, geomVars, callVars, envVars, uiVars>>

\* lines 1022-1078
BuildConfigs ==
    /\ pc = "configure"
    /\ col_configs' = [j \in 1..Len(selected_cols) |->
                          ColConfig(selected_cols[j], qr_positions[selected_cols[j]])]
    /\ qr_preview_configs' =
          [j \in 1..Len(selected_cols) |->
              PreviewConfig(df_selected, selected_cols[j],
                            qr_positions[selected_cols[j]])]
    /\ pc' = "preview"
    /\ UNCHANGED <<df, start_row, end_row, selected_cols, qr_positions,
                   df_selected, preview_ops, row_idx, pages, code, n_pages,
                   wrapVars, geomVars, callVars, envVars, uiVars>>

\* lines 1083-1089
Preview ==
    /\ pc = "preview"
    /\ preview_ops' = create_page_preview(qr_preview_configs)
    /\ pc' = "ready"
    /\ UNCHANGED <<df, start_row, end_row, selected_cols, qr_positions,
                   df_selected, col_configs, qr_preview_configs,
                   row_idx, pages, code, n_pages, wrapVars, geomVars, callVars, envVars, uiVars>>

\* the export button (line 1107) and generate_pdf up to its loop (484-491)
StartPdf ==
    /\ pc = "ready"
    /\ pc' = "render"
    /\ row_idx' = 0
    /\ pages' = <<>>
    /\ code' = <<>>
    /\ n_pages' = -1
    /\ tmp_files' = {}
    /\ progress' = <<>>
    /\ UNCHANGED <<env, mainVars, wrapVars, geomVars, callVars, uiVars>>

\* one turn of the loop over rows (lines 493-576)
RenderRow ==
    /\ pc = "render"
    /\ row_idx < Len(df_selected)
    /\ LET row == DocRow(df_selected, col_configs, row_idx, 1)
       IN  /\ pages' = IF row_idx > 0 THEN ShowPage(pages, code) ELSE pages
           /\ code' = (IF row_idx > 0 THEN <<>> ELSE code) \o row.ops
           /\ tmp_files' = tmp_files \cup row.tmp
           /\ IF row.raised
              THEN pc' = "error" /\ UNCHANGED <<row_idx, progress>>
              ELSE /\ pc' = "render"
                   /\ row_idx' = row_idx + 1
                   /\ progress' =
                         IF env.callback
                         THEN Append(progress,
                                     ProgressValue(row_idx, Len(df_selected)))
                         ELSE progress
    /\ UNCHANGED <<n_pages, env, mainVars, wrapVars, geomVars, callVars, uiVars>>

\* lines 578-580
Save ==
    /\ pc = "render"
    /\ row_idx = Len(df_selected)
    /\ pages' = CanvasSave(pages, code)
    /\ code' = <<>>
    /\ n_pages' = Len(df_selected)
    /\ pc' = "done"
    /\ UNCHANGED <<row_idx, mainVars, wrapVars, geomVars, callVars, envVars,
                   uiVars>>

\* ------------------------------------------------------- the specifications
CellsMain == {NA, Str(""), Flt(10), Str("ABC")}
CellsDoc == {NA, Str(""), Str("ABC"), Str("good.png"), Str("bad.png")}
LabelCols == {"A", "B", "Z"}
LabelOffsets == {-1, 0, 1}

PdfIdle == row_idx = 0 /\ pages = <<>> /\ code = <<>> /\ n_pages = -1

\* find_thai_font() and ImageFont.truetype: a font file found and loadable,
\* no font file found (_THAI_FONT_PATH is None), or one found that cannot be
\* loaded
ThaiFonts == {"ok", "none", "unloadable"}

\* main always hands generate_pdf its update_progress (lines 1110-1125)
EnvMain(f) == [thai_font |-> f, callback |-> TRUE, fault |-> "none"]

\* a first script run on a freshly loaded table: any row range, no placement
\* record in the session yet
InitRange ==
    /\ \E n \in 1..MaxRows :
          /\ df \in Tables(n, CellsMain)
          /\ start_row \in 1..n
          /\ end_row \in 1..n
    /\ selected_cols \in Selections
    /\ qr_positions = <<>>
    /\ env = EnvMain("ok")

\* a script run of a session in which the label of column A was switched on
\* and given a source column and a row offset; column Z is a column of a
\* table loaded earlier in the session that the present table does not have
\* (qr_positions is never reset).  The editor rewrites only the record of the
\* active column, so the record that names Z is that of a column shown next
\* to another, active one.
InitLabel ==
    /\ \E n \in 1..MaxRows :
          /\ df \in Tables(n, CellsMain)
          /\ start_row = 1
          /\ end_row = n
    /\ selected_cols \in Selections
    /\ \E lc \in LabelCols, off \in LabelOffsets :
          /\ lc = "Z" => selected_cols = <<"A", "B">>
          /\ qr_positions = ("A" :> [NewPosition("A", 0, 10) EXCEPT
                                         !.label = TRUE,
                                         !.label_col = lc,
                                         !.label_row_offset = off])
          /\ \E f \in ThaiFonts :
                /\ f # "ok" => (lc = "A" /\ off = 0)
                /\ env = EnvMain(f)

Init ==
    /\ WrapIdle
    /\ GeomIdle
    /\ CallIdle
    /\ UiIdle
    /\ InitRange \/ InitLabel
    /\ tmp_files = {} /\ progress = <<>>
    /\ df_selected = <<>> /\ col_configs = <<>> /\ qr_preview_configs = <<>>
    /\ preview_ops = <<>>
    /\ pc = "select"
    /\ PdfIdle

Next ==
    \/ SelectRows
    \/ CreatePositions
    \/ BuildConfigs
    \/ Preview
    \/ StartPdf
    \/ RenderRow
    \/ Save

Spec == Init /\ [][Next]_vars

\* an I/O call between the creation of a temporary file and its unlink that
\* raises (the disk is full, the file cannot be reopened): on the symbol's
\* file, on the label bitmap's file, or nowhere
IoFaults == {"none", "symbol_io", "label_io"}

\* the processes generate_pdf is studied in; the font and a fault on the
\* label's file can only be observed when a label is visible
DocEnvs(lab) ==
    {e \in [thai_font : ThaiFonts, callback : BOOLEAN, fault : IoFaults] :
        /\ ~lab => (e.thai_font = "ok" /\ e.fault # "label_io")
        /\ e.fault # "none" => e.thai_font = "ok"}

\* generate_pdf called on any table and any placement set
DocInit ==
    /\ WrapIdle
    /\ GeomIdle
    /\ df = <<>> /\ start_row = 1 /\ end_row = 1
    /\ qr_positions = <<>> /\ qr_preview_configs = <<>> /\ preview_ops = <<>>
    /\ \E n \in 1..MaxRows : df_selected \in Tables(n, CellsDoc)
    /\ selected_cols \in Selections
    /\ \E lab \in BOOLEAN :
          /\ col_configs =
                [j \in 1..Len(selected_cols) |->
                    ColConfig(selected_cols[j],
                              [NewPosition(selected_cols[j], j - 1, 10) EXCEPT
                                  !.label = lab /\ j = 1,
                                  !.label_col = "B"])]
          /\ env \in DocEnvs(lab)
    /\ tmp_files = {} /\ progress = <<>>
    /\ CallIdle
    /\ UiIdle
    /\ pc = "ready"
    /\ PdfIdle

DocNext == StartPdf \/ RenderRow \/ Save

SpecDoc == DocInit /\ [][DocNext]_vars

\* ------------------------------------------------- the placement editor
\* A session of main on one table: script runs, each started by one change
\* of an input.  The keys of st.session_state are written without their
\* leading underscore.
\* lines 840-862: a record for every selected column that has none
PositionsCreated(qp, sel, dfs, dqs, my) ==
    [cn \in DOMAIN qp \cup {sel[i] : i \in 1..Len(sel)} |->
        IF cn \in DOMAIN qp THEN qp[cn]
        ELSE LET i == CHOOSE k \in 1..Len(sel) : sel[k] = cn
             IN  NewPositionFor(cn, i - 1, DiscoveredRatio(dfs, cn), dqs, my)]

\* lines 906-917: the editor's keys loaded from a record
EditKeys(pos, cn) ==
    [active_qr |-> cn,
     last_active_cn |-> cn,
     edit_x |-> pos.x,
     edit_y |-> pos.y,
     edit_width |-> pos.width,
     edit_ratio |-> pos.ratio10,
     edit_label |-> pos.label,
     edit_label_col |-> pos.label_col,
     edit_label_row_offset |-> pos.label_row_offset]

\* the ratio not reloaded when the active column changes
on_col_select_NoRatio(s, qp) ==
    LET pos == qp[s.active_qr]
    IN  [s EXCEPT !.edit_x = pos.x,
                  !.edit_y = pos.y,
                  !.edit_width = pos.width,
                  !.edit_label = pos.label,
                  !.last_active_cn = s.active_qr]

\* lines 864-876: the callback of the active-column selectbox
on_col_select(s, qp) ==
    LET pos == qp[s.active_qr]
    IN  [s EXCEPT !.edit_x = pos.x,
                  !.edit_y = pos.y,
                  !.edit_width = pos.width,
                  !.edit_ratio = pos.ratio10,
                  !.edit_label = pos.label,
                  !.last_active_cn = s.active_qr]

\* lines 878-892: the record of the active column rewritten from the keys
save_back(s, qp) ==
    [qp EXCEPT ![s.active_qr] =
        [@ EXCEPT !.x = s.edit_x,
                  !.y = s.edit_y,
                  !.width = s.edit_width,
                  !.ratio10 = s.edit_ratio,
                  !.label = s.edit_label,
                  !.label_col = s.edit_label_col,
                  !.label_row_offset = s.edit_label_row_offset]]

\* one script run from the placement records on (lines 834-1089): the
\* records, the session keys, the height the editor shows, and the two
\* configuration lists it ends with
ScriptRun(sel, qp, s, sb, dfs) ==
    LET qp1 == PositionsCreated(qp, sel, dfs, sb.default_qr_size, sb.max_y)
        first_col == sel[1]
        need_init == s = <<>>
        act == IF need_init THEN first_col
               ELSE IF \E k \in 1..Len(sel) : sel[k] = s.active_qr
                    THEN s.active_qr
               ELSE first_col
        col_changed == need_init \/ s.last_active_cn # act
        s1 == IF col_changed THEN EditKeys(qp1[act], act)
              ELSE [s EXCEPT !.active_qr = act]
        s2 == IF s1.edit_label
              THEN [s1 EXCEPT !.edit_label_col = qp1[act].label_col,
                              !.edit_label_row_offset = qp1[act].label_row_offset]
              ELSE s1
        qp2 == save_back(s2, qp1)
    IN  [qp |-> qp2,
         ss |-> s2,
         calc_height |-> s2.edit_width * s2.edit_ratio,
         col_configs |-> [j \in 1..Len(sel) |-> ColConfig(sel[j], qp2[sel[j]])],
         qr_preview_configs |->
             [j \in 1..Len(sel) |-> PreviewConfig(dfs, sel[j], qp2[sel[j]])]]

\* the state a script run leaves
RunLeaves(sel, sb, run) ==
    /\ selected_cols' = sel
    /\ sidebar' = sb
    /\ qr_positions' = run.qp
    /\ ss' = run.ss
    /\ calc_height' = run.calc_height
    /\ col_configs' = run.col_configs
    /\ qr_preview_configs' = run.qr_preview_configs
    /\ preview_ops' = create_page_preview(run.qr_preview_configs)
    /\ pc' = "ready"
    /\ UNCHANGED <<df, start_row, end_row, df_selected, row_idx, pages,
                   code, n_pages, wrapVars, geomVars, callVars, envVars>>

\* the multiselect: the selected columns, in selection order
EditSelections == {<<"A">>, <<"B">>, <<"A", "B">>, <<"B", "A">>}

\* the sidebar: the default size and the page (a default size above the page
\* height, and the smallest page with the smallest size, among them)
SidebarChoices ==
    {[default_qr_size |-> 30, max_x |-> 210, max_y |-> 297],
     [default_qr_size |-> 500, max_x |-> 210, max_y |-> 297],
     [default_qr_size |-> 3, max_x |-> 10, max_y |-> 10]}

\* values typed into the editor's number inputs, some outside their ranges
EditXs == {-5, 20}
EditYs == {-5}
EditWidths == {0, 6}

\* the bounds left out: whatever is typed is taken
number_input_Unbounded(min_value, max_value, typed) == typed

\* st.number_input(min_value, max_value): the value a typed number leaves in
\* the input (lines 955-966 give the bounds)
number_input(min_value, max_value, typed) ==
    Max(min_value, Min(max_value, typed))

\* the table of the session: an image twice as wide as high in column A, a
\* text in column B
EditTable == <<[A |-> Str("good.png"), B |-> Str(RowLabel(1))]>>

EditInit ==
    /\ WrapIdle /\ GeomIdle /\ CallIdle
    /\ env = EnvMain("ok") /\ tmp_files = {} /\ progress = <<>>
    /\ df = EditTable /\ start_row = 1 /\ end_row = 1
    /\ df_selected = EditTable
    /\ selected_cols \in EditSelections
    /\ sidebar \in SidebarChoices
    /\ qr_positions = <<>> /\ ss = <<>> /\ calc_height = 0
    /\ col_configs = <<>> /\ qr_preview_configs = <<>> /\ preview_ops = <<>>
    /\ pc = "select"
    /\ PdfIdle

\* the first script run of the session
FirstRun ==
    /\ ss = <<>>
    /\ RunLeaves(selected_cols, sidebar,
                 ScriptRun(selected_cols, qr_positions, ss, sidebar, df_selected))

\* a number typed into X, Y or the width (lines 955-966): save_back as the
\* input's callback, then the script run
EditNumber ==
    /\ ss # <<>>
    /\ \E s0 \in {[ss EXCEPT !.edit_x = number_input(0, sidebar.max_x, v)] :
                      v \in EditXs}
               \cup {[ss EXCEPT !.edit_y = number_input(0, sidebar.max_y, v)] :
                      v \in EditYs}
               \cup {[ss EXCEPT !.edit_width = number_input(3, 500, v)] :
                      v \in EditWidths} :
          RunLeaves(selected_cols, sidebar,
                    ScriptRun(selected_cols, save_back(s0, qr_positions), s0,
                              sidebar, df_selected))

\* the label checkbox (line 973)
ToggleLabel ==
    /\ ss # <<>>
    /\ LET s0 == [ss EXCEPT !.edit_label = ~ss.edit_label]
       IN  RunLeaves(selected_cols, sidebar,
                     ScriptRun(selected_cols, save_back(s0, qr_positions), s0,
                               sidebar, df_selected))

\* the label's source column (lines 986-987), shown while the label is on
EditLabelSource ==
    /\ ss # <<>> /\ ss.edit_label
    /\ \E s0 \in {[ss EXCEPT !.edit_label_col = c] : c \in TableCols} :
          RunLeaves(selected_cols, sidebar,
                    ScriptRun(selected_cols, save_back(s0, qr_positions), s0,
                              sidebar, df_selected))

\* the active-column selectbox (lines 923-930), shown for several columns
SelectActive ==
    /\ ss # <<>> /\ Len(selected_cols) > 1
    /\ \E k \in 1..Len(selected_cols) :
          /\ selected_cols[k] # ss.active_qr
          /\ LET s0 == on_col_select([ss EXCEPT !.active_qr = selected_cols[k]],
                                     qr_positions)
             IN  RunLeaves(selected_cols, sidebar,
                           ScriptRun(selected_cols, qr_positions, s0, sidebar,
                                     df_selected))

\* the multiselect changed (line 782): no callback, the script runs
ChangeSelection ==
    /\ ss # <<>>
    /\ \E sel \in EditSelections \ {selected_cols} :
          RunLeaves(sel, sidebar,
                    ScriptRun(sel, qr_positions, ss, sidebar, df_selected))

EditNext ==
    \/ FirstRun
    \/ EditNumber
    \/ ToggleLabel
    \/ EditLabelSource
    \/ SelectActive
    \/ ChangeSelection

SpecEdit == EditInit /\ [][EditNext]_vars

\* ------------------------------------------------------- smart_str alone
CellsStr ==
    {NA, Str(""), Str("ABC"), Str("1.0"), BoolCell(TRUE), BoolCell(FALSE)}
        \cup {Flt(t) : t \in (0 - MaxTenths)..MaxTenths}
        \cup {IntCell(i) : i \in -2..2}

StrInit ==
    /\ fq \in [fn : {"smart_str"}, val : CellsStr]
    /\ fres = [fn |-> "none"]
    /\ WrapIdle /\ GeomIdle /\ MainIdle /\ EnvIdle /\ UiIdle

CallSmartStr ==
    /\ fq.fn = "smart_str"
    /\ fres' = [fn |-> "smart_str", out |-> smart_str(fq.val)]
    /\ UNCHANGED <<fq, wrapVars, geomVars, mainVars, pdfVars, envVars, uiVars>>

StrNext == CallSmartStr

SpecStr == StrInit /\ [][StrNext]_vars

\* ------------------------------------------- the page in both backends
\* PAGE_SIZES: reportlab's page sizes, (width, height) in 1/1270 pt
\* (A and B sizes are given in mm, Letter and Legal in inches)
PAGE_SIZES ==
    [A3 |-> <<2970 * 360, 4200 * 360>>,
     A4 |-> <<2100 * 360, 2970 * 360>>,
     A5 |-> <<1480 * 360, 2100 * 360>>,
     A6 |-> <<1050 * 360, 1480 * 360>>,
     B4 |-> <<2500 * 360, 3530 * 360>>,
     B5 |-> <<1760 * 360, 2500 * 360>>,
     Letter |-> <<612 * 1270, 792 * 1270>>,
     Legal |-> <<612 * 1270, 1008 * 1270>>]

\* the custom width and height inputs, in 1/10 mm (10.0 to 5000.0 mm)
CustomDims == {100, 2100, 2970, 50000}

PageChoices ==
    {[name |-> nm, w |-> 0, h |-> 0] : nm \in DOMAIN PAGE_SIZES}
        \cup [name : {"Custom"}, w : CustomDims, h : CustomDims]

\* lines 647-657: page_size in points (1/1270 pt)
PageSizePt(choice) ==
    IF choice.name = "Custom"
    THEN <<choice.w * MmUnits, choice.h * MmUnits>>
    ELSE PAGE_SIZES[choice.name]

\* round(pt / mm, 1), in 1/10 mm
RoundToTenthMm(pt) == (2 * pt + MmUnits) \div (2 * MmUnits)

\* lines 647-664: (page_w_mm, page_h_mm) in 1/10 mm, swapped for landscape
PreviewPage(choice, is_landscape) ==
    LET wh == IF choice.name = "Custom" THEN <<choice.w, choice.h>>
              ELSE <<RoundToTenthMm(PageSizePt(choice)[1]),
                     RoundToTenthMm(PageSizePt(choice)[2])>>
    IN  IF is_landscape THEN <<wh[2], wh[1]>> ELSE wh

\* reportlab.lib.pagesizes.landscape: the longer side made the width
landscape(page_size) ==
    IF page_size[1] < page_size[2] THEN <<page_size[2], page_size[1]>>
    ELSE page_size

\* lines 484-487 (and 1117): (page_w, page_h) of generate_pdf
DocPage(choice, is_landscape) ==
    IF is_landscape THEN landscape(PageSizePt(choice)) ELSE PageSizePt(choice)

NoPage == <<>>

PageInit ==
    /\ fq \in [fn : {"page"}, choice : PageChoices, is_landscape : BOOLEAN]
    /\ fres = [fn |-> "page", preview |-> NoPage, doc |-> NoPage]
    /\ WrapIdle /\ GeomIdle /\ MainIdle /\ EnvIdle /\ UiIdle

\* the sidebar of main
ConfigurePage ==
    /\ fq.fn = "page" /\ fres.preview = NoPage
    /\ fres' = [fres EXCEPT !.preview = PreviewPage(fq.choice, fq.is_landscape)]
    /\ UNCHANGED <<fq, wrapVars, geomVars, mainVars, pdfVars, envVars, uiVars>>

\* generate_pdf up to its canvas
OpenCanvas ==
    /\ fq.fn = "page" /\ fres.preview # NoPage /\ fres.doc = NoPage
    /\ fres' = [fres EXCEPT !.doc = DocPage(fq.choice, fq.is_landscape)]
    /\ UNCHANGED <<fq, wrapVars, geomVars, mainVars, pdfVars, envVars, uiVars>>

PageNext == ConfigurePage \/ OpenCanvas

SpecPage == PageInit /\ [][PageNext]_vars

\* ------------------------------------------- one placement in both backends
\* page heights in 1/1270 pt: A4 portrait, A4 landscape, Letter portrait
PageHeights == {2970 * 360, 2100 * 360, 792 * 1270}

GeomQueries == [x : {0, 10}, y : {0, 10, 300}, width : {3, 30},
                ratio10 : {5, 10, 15}, page_h : PageHeights]

GeomCfg == ColConfig("A", [NewPosition("A", 0, gq.ratio10) EXCEPT
                              !.x = gq.x, !.y = gq.y, !.width = gq.width])

GeomInit ==
    /\ gq \in GeomQueries /\ gres = NoBox
    /\ WrapIdle /\ MainIdle /\ CallIdle /\ EnvIdle /\ UiIdle

\* the document's rectangle, converted back to canonical coordinates
\* (origin top-left, y down), still in 1/1270 pt
GeomPdf ==
    /\ LET box == DocBox(GeomCfg, gq.page_h)
       IN  gres' = [backend |-> "pdf",
                    left   |-> box.x_pt,
                    right  |-> box.x_pt + box.w_pt,
                    top    |-> gq.page_h - (box.y_pt + box.h_pt),
                    bottom |-> gq.page_h - box.y_pt]
    /\ UNCHANGED <<gq, wrapVars, mainVars, pdfVars, callVars, envVars, uiVars>>

\* the preview's image extent, scaled to 1/1270 pt for comparison
GeomPreview ==
    /\ LET ext == PreviewExtent(GeomCfg)
       IN  gres' = [backend |-> "preview",
                    left   |-> ext.left * MmUnits,
                    right  |-> ext.right * MmUnits,
                    top    |-> ext.top * MmUnits,
                    bottom |-> ext.bottom * MmUnits]
    /\ UNCHANGED <<gq, wrapVars, mainVars, pdfVars, callVars, envVars, uiVars>>

GeomNext == GeomPdf \/ GeomPreview

SpecGeom == GeomInit /\ [][GeomNext]_vars

\* ------------------------------------------------ one label in both backends
\* Vertical positions in canonical coordinates (origin top-left, y down), in
\* 1/1270 pt: the bottom edge of the primary box, and the top of every thing
\* drawn for the label (the bitmap, or each line of native text).
PtUnits == 1270

\* create_page_preview lines 393-398 and 411-413, in 1/10 mm: the label
\* starts 2 mm below the box, or below the badge when the badge is under it
PreviewLabelYPos(cfg) ==
    LET y == cfg.y_mm * 10
        h == cfg.height_dmm
        badge_h == 35
        above == y - badge_h - 15
        badge_y == IF above < -50 THEN y + h + 15 ELSE above
    IN  IF badge_y > y THEN badge_y + badge_h + 10 ELSE y + h + 20

\* create_page_preview lines 410-466: imshow puts the bitmap's top at
\* label_y_pos; ax.text(va="top") puts the top of line li at
\* label_y_pos + li * line_height_mm, line_height_mm = font_size * 0.353 * 2.5
PreviewLabelGeom(cfg, label_value, thai_font) ==
    LET top0 == PreviewLabelYPos(cfg) * MmUnits
        bottom == (cfg.y_mm * 10 + cfg.height_dmm) * MmUnits
        r == Rasterize(thai_font)
        rendered == thai_font # "none" /\ r.bitmap /\ r.tw > 0 /\ r.th > 0
        lines == wrap_text_for_preview(label_value, cfg.label_font_size,
                                       Max(5, cfg.label_width_mm))
        line_height == cfg.label_font_size * 3177
    IN  IF rendered
        THEN [path |-> "label_image", box_bottom |-> bottom, tops |-> <<top0>>]
        ELSE [path |-> "label_text", box_bottom |-> bottom,
              tops |-> [li \in 1..Len(lines) |-> top0 + (li - 1) * line_height]]

\* generate_pdf lines 503-506 and 527-573: the bitmap is drawn from
\* img_y = y_pt - th_pt - 2 upward over th_pt; the first baseline of native
\* text is label_y = y_pt - font_size - 2, the next ones font_size * 1.4
\* lower each, and a line reaches one font size above its baseline
DocLabelGeom(cfg, label_value, page_h, thai_font) ==
    LET y_pt == DocYPt(cfg, page_h)
        r == Rasterize(thai_font)
        rendered_pdf == thai_font # "none" /\ r.bitmap /\ r.tw > 0
        th_pt == r.th * 10 * MmUnits
        img_y == y_pt - th_pt - 2 * PtUnits
        font_size == cfg.label_font_size * PtUnits
        lines == wrap_text_for_pdf(label_value, "Helvetica", cfg.label_font_size,
                                   Max(5, cfg.label_width_mm) * 360000)
        line_spacing == cfg.label_font_size * 1778
        label_y == y_pt - font_size - 2 * PtUnits
    IN  IF rendered_pdf
        THEN [path |-> "label_image", box_bottom |-> page_h - y_pt,
              tops |-> <<page_h - (img_y + th_pt)>>]
        ELSE [path |-> "label_text", box_bottom |-> page_h - y_pt,
              tops |-> [li \in 1..Len(lines) |->
                           page_h - (label_y - (li - 1) * line_spacing + font_size)]]

NoGeom == [path |-> "none", box_bottom |-> 0, tops |-> <<>>]

\* label texts of one, two and three words
LabelTexts == {<<"a">>, <<"a", "a", " ", "a", "a">>, <<"a", " ", "i", " ", "a">>}

\* the label font file found and loadable, or not found (Helvetica is then
\* the document's font)
LabelQueries == [y : {0, 10}, width : {3, 30}, ratio10 : {5, 10},
                 font_size : {7, 20}, label_width : {3, 20},
                 text : LabelTexts, page_h : {2970 * 360, 792 * 1270},
                 thai_font : {"ok", "none"}]

LabelCfg == ColConfig("A", [NewPosition("A", 0, fq.ratio10) EXCEPT
                               !.y = fq.y, !.width = fq.width, !.label = TRUE,
                               !.label_font_size = fq.font_size,
                               !.label_width_mm = fq.label_width])

LabelInit ==
    /\ \E q \in LabelQueries :
          fq = [fn |-> "label", y |-> q.y, width |-> q.width,
                ratio10 |-> q.ratio10, font_size |-> q.font_size,
                label_width |-> q.label_width, text |-> q.text,
                page_h |-> q.page_h, thai_font |-> q.thai_font]
    /\ fres = [fn |-> "label", preview |-> NoGeom, doc |-> NoGeom]
    /\ WrapIdle /\ GeomIdle /\ MainIdle /\ EnvIdle /\ UiIdle

\* create_page_preview's label block for the placement
LabelPreview ==
    /\ fq.fn = "label" /\ fres.preview = NoGeom
    /\ fres' = [fres EXCEPT
                   !.preview = PreviewLabelGeom(LabelCfg, fq.text, fq.thai_font)]
    /\ UNCHANGED <<fq, wrapVars, geomVars, mainVars, pdfVars, envVars, uiVars>>

\* generate_pdf's label block for the placement
LabelPdf ==
    /\ fq.fn = "label" /\ fres.doc = NoGeom
    /\ fres' = [fres EXCEPT
                   !.doc = DocLabelGeom(LabelCfg, fq.text, fq.page_h, fq.thai_font)]
    /\ UNCHANGED <<fq, wrapVars, geomVars, mainVars, pdfVars, envVars, uiVars>>

LabelNext == LabelPreview \/ LabelPdf

SpecLabel == LabelInit /\ [][LabelNext]_vars

\* ================================================================== claims
\* every drawing op of the document so far, closed pages first
AllDocOps == Concat(pages) \o code

\* the ops that draw a placement's primary content
PrimaryKinds == {"image", "qr", "placeholder"}

PreviewDrew(col) ==
    \E k \in 1..Len(preview_ops) :
        preview_ops[k].col = col /\ preview_ops[k].op \in PrimaryKinds

DocDrewOn(col, r) ==
    \E k \in 1..Len(AllDocOps) :
        /\ AllDocOps[k].col = col /\ AllDocOps[k].row = r
        /\ AllDocOps[k].op \in PrimaryKinds

CfgOf(col) == col_configs[CHOOSE j \in 1..Len(col_configs) :
                              col_configs[j].col_name = col]

\* C1: generate_pdf on N >= 1 rows emits exactly N pages and returns N, also
\* when every placement of some or all rows is empty.
C1_RowToPageBijection ==
    pc = "done" => Len(pages) = Len(df_selected) /\ n_pages = Len(df_selected)

KeptIdx ==
    {i \in start_row..end_row :
        \E k \in 1..Len(selected_cols) : df[i][selected_cols[k]].k # "na"}

C3_DrawFailureContained ==
    /\ pc # "error"
    /\ pc = "done" =>
          \A r \in 1..Len(df_selected), j \in 1..Len(col_configs) :
              ~IsEmptyRaw(df_selected[r][col_configs[j].col_name])
                  => DocDrewOn(col_configs[j].col_name, r - 1)

\* C5 (as stated): a placement is skipped in the preview exactly when the
\* document skips it on the page of row 0.
C5_PreviewSkipsAsRow0 ==
    pc = "done" =>
        \A j \in 1..Len(selected_cols) :
            PreviewDrew(selected_cols[j]) <=> DocDrewOn(selected_cols[j], 0)

\* C5 (amended): a placement is skipped in the preview exactly when the
\* document skips it on the page of the first row whose value for that
\* column is not missing; a column with no value at all is skipped in both.
C5_PreviewSkipsAsSampledRow ==
    pc = "done" =>
        \A j \in 1..Len(selected_cols) :
            LET col == selected_cols[j]
            IN  PreviewDrew(col) <=>
                   /\ ValidRows(df_selected, col) # {}
                   /\ DocDrewOn(col, FirstValid(df_selected, col) - 1)

C5_Witness ==
    /\ pc = "done"
    /\ Len(df_selected) >= 2
    /\ df_selected[1].A = NA
    /\ df_selected[2].A = Str("ABC")
    /\ PreviewDrew("A") /\ ~DocDrewOn("A", 0) /\ DocDrewOn("A", 1)

\* the label text claimed for the page of row r (0-based) under cfg
ClaimedLabel(cfg, r) ==
    LET t == r + cfg.label_row_offset
    IN  IF t < 0 \/ t >= Len(df_selected) THEN ""
        ELSE smart_str(df_selected[t + 1][cfg.label_col])

\* C6: for every page i and every row offset, the label text is empty when
\* i + row_offset is outside the table and the label column's value at row
\* i + row_offset otherwise; the same in the preview, for row 0.
C6_LabelOffsetBounds ==
    /\ \A k \in 1..Len(AllDocOps) :
          LET op == AllDocOps[k]
          IN  (op.op = "label" /\ CfgOf(op.col).label_col \in TableCols)
                 => op.text = ClaimedLabel(CfgOf(op.col), op.row)
    /\ \A k \in 1..Len(preview_ops) :
          LET op == preview_ops[k]
          IN  (op.op = "label" /\ CfgOf(op.col).label_col \in TableCols)
                 => op.text = ClaimedLabel(CfgOf(op.col), 0)

C6_Witness ==
    /\ pc = "done"
    /\ Len(df_selected) = 2
    /\ CfgOf("A").label_col = "B" /\ CfgOf("A").label_row_offset = 1
    /\ \E k \in 1..Len(preview_ops) :
          preview_ops[k] = DrawOp("label", "A", 0, "L2")
    /\ \E k \in 1..Len(AllDocOps) : AllDocOps[k] = DrawOp("label", "A", 0, "L2")
    /\ \E k \in 1..Len(AllDocOps) : AllDocOps[k] = DrawOp("label", "A", 1, "")

\* C7: a visible label whose source column is not a column of the table has
\* the empty text, in the preview and in the document.
C7_UnknownLabelColumnEmpty ==
    /\ \A k \in 1..Len(AllDocOps) :
          LET op == AllDocOps[k]
          IN  (op.op = "label" /\ CfgOf(op.col).label_col \notin TableCols)
                 => op.text = ""
    /\ \A k \in 1..Len(preview_ops) :
          LET op == preview_ops[k]
          IN  (op.op = "label" /\ CfgOf(op.col).label_col \notin TableCols)
                 => op.text = ""

C8_WrapNeverEmpty ==
    wres.ok => /\ Len(wres.lines) >= 1
               /\ wq.text = <<>> => wres.lines = << <<>> >>

C8_Witness ==
    /\ wres.ok /\ wres.fn = "render_thai_text_pil"
    /\ wq.text = <<>> /\ wres.lines = << <<>> >>

\* words separated by single spaces, none leading or trailing
SingleSpaced(s) ==
    /\ HasSpace(s)
    /\ s[1] # " " /\ s[Len(s)] # " "
    /\ \A k \in 1..(Len(s) - 1) : ~(s[k] = " " /\ s[k + 1] = " ")

\* C9: wrapping loses and reorders no characters: the lines of a text with
\* no space concatenate to the text, the lines of a single-spaced text joined
\* with one space give the text, for every routine.
C9_WrapKeepsCharacters ==
    wres.ok => /\ ~HasSpace(wq.text) => Concat(wres.lines) = wq.text
               /\ SingleSpaced(wq.text) => JoinSp(wres.lines) = wq.text

\* does the word alone exceed the width limit of the routine that ran
WordOverlong(word) ==
    IF wres.fn = "wrap_text_for_pdf"
    THEN ~Fits(word, [kind |-> "pt", font |-> wq.font, size |-> wq.size,
                      limit |-> wq.width * 360000])
    ELSE IF wres.fn = "wrap_text_for_preview"
    THEN Len(word) > CharsPerLine(wq.size, wq.width)
    ELSE LET px == IF wres.fn = "render_thai_text_image"
                   THEN PixelSize(wq.size, 8, 12) ELSE PixelSize(wq.size, 12, 16)
         IN  ~Fits(word, [kind |-> "px", font |-> wq.font, size |-> px,
                          limit |-> TargetWPx(wq.size, wq.width, px)])

\* C10: when a text with spaces is wrapped, no word is split: the words of
\* the lines are the words of the text, and a word that alone exceeds the
\* width limit is alone on its line; for every routine.
C10_WordsNeverSplit ==
    (wres.ok /\ HasSpace(wq.text)) =>
        /\ Concat([k \in 1..Len(wres.lines) |-> SplitWS(wres.lines[k])])
              = SplitWS(wq.text)
        /\ \A k \in 1..Len(wres.lines) :
              LET ws == SplitWS(wres.lines[k])
              IN  \A j \in 1..Len(ws) : WordOverlong(ws[j]) => Len(ws) = 1

\* C14: every temporary file generate_pdf creates for a placement is deleted
\* by the end of that placement's drawing step, when the draw succeeds and
\* when it fails: no such file exists between steps, after the return or
\* after the exception.
C14_TempFilesDeleted == tmp_files = {}

\* C15: with a progress callback, generate_pdf calls it once after each
\* composed row with (rows_done / rows_total), rows_done = 1, 2, ... in order
\* (so the values increase strictly, lie in (0, 1] and end with 1 on return);
\* without one nothing is reported; the pages are those of the rows' own
\* drawing ops either way.
C15_ProgressAfterEachRow ==
    /\ env.callback =>
          /\ progress = [k \in 1..row_idx |-> <<k, Len(df_selected)>>]
          /\ \A k \in 1..Len(progress) :
                /\ 0 < progress[k][1] /\ progress[k][1] <= progress[k][2]
                /\ k > 1 => progress[k - 1][1] * progress[k][2]
                                < progress[k][1] * progress[k - 1][2]
          /\ pc = "done" =>
                /\ Len(progress) = Len(df_selected)
                /\ progress[Len(progress)][1] = progress[Len(progress)][2]
    /\ ~env.callback => progress = <<>>
    /\ \A p \in 1..Len(pages) :
          pages[p] = DocRow(df_selected, col_configs, p - 1, 1).ops

C15_Witness ==
    /\ pc = "done" /\ env.callback
    /\ progress = << <<1, 3>>, <<2, 3>>, <<3, 3>> >>
    /\ Len(pages) = 3

\* the ops of a backend in which a visible label is drawn by exactly one
\* path, the one the font decides
OnePathPerLabel(ops) ==
    LET path == IF env.thai_font = "ok" THEN "label_image" ELSE "label_text"
    IN  /\ \A k \in 1..Len(ops) :
              (ops[k].op \in PrimaryKinds /\ CfgOf(ops[k].col).show_label)
                  => /\ k + 2 <= Len(ops)
                     /\ ops[k + 1].op = "label"
                     /\ ops[k + 2] = DrawOp(path, ops[k].col, ops[k].row,
                                            ops[k + 1].text)
        /\ \A k \in 1..Len(ops) :
              ops[k].op \in {"label_image", "label_text"}
                  => /\ k > 2
                     /\ ops[k - 1].op = "label"
                     /\ ops[k - 2].op \in PrimaryKinds
                     /\ ops[k - 2].col = ops[k].col /\ ops[k - 2].row = ops[k].row

\* C16: whenever a placement with a visible label is drawn, its label is
\* drawn by exactly one path: the rasterized bitmap when the font loads,
\* otherwise (no font path, or the font fails to load) the backend's own
\* text lines; in the preview and in the document.
C16_LabelByExactlyOnePath ==
    pc \in {"ready", "render", "done"} =>
        OnePathPerLabel(preview_ops) /\ OnePathPerLabel(AllDocOps)

C16_Witness ==
    /\ pc = "done" /\ env.thai_font = "unloadable"
    /\ \E k \in 1..Len(preview_ops) :
          preview_ops[k] = DrawOp("label_text", "A", 0, "ABC")
    /\ \E k \in 1..Len(AllDocOps) :
          AllDocOps[k] = DrawOp("label_text", "A", 0, "ABC")

\* the 26-letter text of equal-width characters
Text26 == [i \in 1..26 |-> "a"]

CharsFitting ==
    IF wres.fn = "wrap_text_for_pdf"
    THEN (wq.width * 360000)
            \div ((IF wq.font = "Unregistered" THEN 500
                   ELSE Glyph(wq.font, wq.text[1])) * wq.size * 127)
    ELSE Max(3, (wq.width * 100000) \div Max(50000, wq.size * 19415))

C20_GreedyWidthMaximal ==
    wres.fn = "wrap_text_for_pdf" =>
        LET limit == wq.width * 360000
            W(t) == IF wq.font = "Unregistered" THEN Len(t) * wq.size * 500 * 127
                    ELSE GlyphSum(wq.font, t) * wq.size * 127
            L == wres.lines
        IN  IF HasSpace(wq.text)
            THEN /\ \A k \in 1..Len(L) : Len(SplitWS(L[k])) > 1 => W(L[k]) <= limit
                 /\ \A k \in 1..(Len(L) - 1) :
                       W(L[k] \o <<" ">> \o SplitWS(L[k + 1])[1]) > limit
            ELSE /\ \A k \in 1..Len(L) : Len(L[k]) > 1 => W(L[k]) <= limit
                 /\ \A k \in 1..(Len(L) - 1) : W(L[k] \o <<L[k + 1][1]>>) > limit

\* two words that fit one line together with a third that does not
C20_Witness ==
    /\ wres.fn = "wrap_text_for_pdf"
    /\ wq.text = <<"a", " ", "a", " ", "a", "a">>
    /\ wq.font = "Courier" /\ wq.size = 7 /\ wq.width = 5
    /\ wres.lines = << <<"a", " ", "a">>, <<"a", "a">> >>

\* the configured (width, height) of the page, in 1/10 mm
ConfiguredPage ==
    IF fq.choice.name = "Custom" THEN <<fq.choice.w, fq.choice.h>>
    ELSE <<RoundToTenthMm(PAGE_SIZES[fq.choice.name][1]),
           RoundToTenthMm(PAGE_SIZES[fq.choice.name][2])>>

\* C17: for every page size, catalogue or custom, and both orientations, the
\* document's page rectangle is the preview's: the configured (width, height)
\* in portrait, (height, width) in landscape.
C17_SamePageRectangle ==
    (fres.fn = "page" /\ fres.doc # NoPage) =>
        LET want == IF fq.is_landscape
                    THEN <<ConfiguredPage[2], ConfiguredPage[1]>>
                    ELSE ConfiguredPage
        IN  /\ fres.preview = want
            /\ fres.doc = <<want[1] * MmUnits, want[2] * MmUnits>>

\* decimal digits of a natural number
RECURSIVE NatStr(_)
NatStr(n) ==
    IF n < 10 THEN <<"0", "1", "2", "3", "4", "5", "6", "7", "8", "9">>[n + 1]
    ELSE NatStr(n \div 10) \o NatStr(n % 10)

SignedStr(i) == IF i < 0 THEN "-" \o NatStr(0 - i) ELSE NatStr(i)

\* C18: smart_str gives "" for a missing value, the integer digits without a
\* decimal point for a whole float (1.0 -> "1"), and the natural string form
\* of every other value.
C18_SmartStrPrinted ==
    fres.fn = "smart_str" =>
        LET v == fq.val
            a == IF v.n < 0 THEN 0 - v.n ELSE v.n
        IN  fres.out =
               (IF v.k = "na" THEN ""
                ELSE IF v.k = "str" THEN v.s
                ELSE IF v.k = "bool" THEN (IF v.n = 1 THEN "True" ELSE "False")
                ELSE IF v.k = "int" THEN SignedStr(v.n)
                ELSE IF a % 10 = 0
                     THEN (IF v.n < 0 THEN "-" ELSE "") \o NatStr(a \div 10)
                ELSE (IF v.n < 0 THEN "-" ELSE "")
                        \o NatStr(a \div 10) \o "." \o NatStr(a % 10))

C18_Witness ==
    fq.fn = "smart_str" /\ fq.val = Flt(10) /\ fres.fn = "smart_str" /\ fres.out = "1"

\* ------------------------------------------------------------ C12, C13, C19
\* the configuration of column cn in a list handed to a renderer
CfgIn(cfgs, cn) == cfgs[CHOOSE j \in 1..Len(cfgs) : cfgs[j].col_name = cn]
CfgCols(cfgs) == {cfgs[j].col_name : j \in 1..Len(cfgs)}

\* the product of a record's width and ratio, in tenths of a millimetre
Product(p) == p.width * p.ratio10

\* C12: every placement handed to the renderers has a height equal to its
\* width times its stored aspect ratio; an edit that doubles a column's width
\* doubles the height handed to both renderers; and the height the editor
\* shows for the active column is the same product.
C12_HeightIsWidthTimesRatio ==
    [][ /\ \A j \in 1..Len(col_configs') :
             col_configs'[j].height_dmm
                 = Product(qr_positions'[col_configs'[j].col_name])
        /\ \A j \in 1..Len(qr_preview_configs') :
             qr_preview_configs'[j].height_dmm
                 = Product(qr_positions'[qr_preview_configs'[j].col_name])
        /\ calc_height' = CfgIn(col_configs', ss'.active_qr).height_dmm
        /\ \A cn \in CfgCols(col_configs) \cap CfgCols(col_configs') :
             CfgIn(col_configs', cn).width_mm = 2 * CfgIn(col_configs, cn).width_mm
                 => /\ CfgIn(col_configs', cn).height_dmm
                          = 2 * CfgIn(col_configs, cn).height_dmm
                    /\ CfgIn(qr_preview_configs', cn).height_dmm
                          = 2 * CfgIn(qr_preview_configs, cn).height_dmm
      ]_vars

\* the image column, whose ratio is not 1, edited from width 3 to width 6 and
\* handed to the renderers three millimetres high
C12_Witness ==
    /\ ss # <<>>
    /\ ss.active_qr = "A" /\ ss.edit_width = 6
    /\ qr_positions["A"].ratio10 = 5
    /\ calc_height = 30
    /\ CfgIn(col_configs, "A").height_dmm = 30
    /\ preview_ops # <<>>

\* C13: a record is created with the ratio discovered from the column's first
\* non-empty value, and no later step of the session changes the stored ratio
\* of any column (nor drops its record).
C13_RatioImmutable ==
    [][ /\ \A cn \in DOMAIN qr_positions :
             /\ cn \in DOMAIN qr_positions'
             /\ qr_positions'[cn].ratio10 = qr_positions[cn].ratio10
        /\ \A cn \in DOMAIN qr_positions' \ DOMAIN qr_positions :
             qr_positions'[cn].ratio10 = DiscoveredRatio(df_selected, cn)
      ]_vars

\* both columns have records with different ratios, the text column is the
\* active one after a switch, and its record has been edited
C13_Witness ==
    /\ ss # <<>>
    /\ DOMAIN qr_positions = {"A", "B"}
    /\ Len(selected_cols) = 2
    /\ ss.active_qr = selected_cols[2]
    /\ ss.edit_label /\ ss.edit_width = 6 /\ ss.edit_x = 0
    /\ qr_positions["A"].ratio10 = 5 /\ qr_positions["B"].ratio10 = 10

\* C19: every placement that reaches create_page_preview or generate_pdf has
\* a width of at least 3 mm and non-negative x and y, whatever was typed into
\* the editor and whatever the default size and the page.
ValidPlacement(c) == c.width_mm >= 3 /\ c.x_mm >= 0 /\ c.y_mm >= 0

C19_PlacementsValid ==
    /\ \A j \in 1..Len(col_configs) : ValidPlacement(col_configs[j])
    /\ \A j \in 1..Len(qr_preview_configs) : ValidPlacement(qr_preview_configs[j])

\* a default size above the page height: the second column's record was
\* created at y = 0, and the preview has drawn it
C19_Witness ==
    /\ Len(col_configs) = 2
    /\ col_configs[2].width_mm = 500 /\ col_configs[2].y_mm = 0
    /\ preview_ops # <<>>

\* ---------------------------------------------------------------------- C22
\* C22: the stored record of a column changes only in a step in which that
\* column is the active one before and after, that is through an edit made to
\* it while active; switching the active column or changing the selection
\* rewrites no stored record.
C22_RecordsChangeOnlyByActiveEdit ==
    [][ \A cn \in DOMAIN qr_positions :
            qr_positions'[cn] # qr_positions[cn]
                => ss.active_qr = cn /\ ss'.active_qr = cn
      ]_vars

\* ---------------------------------------------------------------------- C21
\* the gap between the bottom of the primary box and the top of the label
Gap(g) == g.tops[1] - g.box_bottom

\* the distances between the tops of successive label lines
Pitches(g) == {g.tops[li + 1] - g.tops[li] : li \in 1..(Len(g.tops) - 1)}

\* C21: a visible label drawn by both backends starts at the same distance
\* below the bottom edge of the primary box in the preview and in the
\* document, and in the native-text path successive lines are
\* font_size x 1.4 pt apart in both.
C21_LabelSamePositionInBoth ==
    (fres.fn = "label" /\ fres.preview # NoGeom /\ fres.doc # NoGeom) =>
        /\ Gap(fres.preview) = Gap(fres.doc)
        /\ \A g \in {fres.preview, fres.doc} :
              g.path = "label_text" => Pitches(g) \subseteq {fq.font_size * 1778}

\* ---------------------------------------------------------------------- C23
\* C23: the label text the preview shows under a column's primary value is
\* the one the document draws under it on the page of the row the primary
\* value was sampled from (the first row whose value is not missing), for
\* every label whose source column is a column of the table.
C23_PreviewPairOnOnePage ==
    pc = "done" =>
        \A k \in 1..Len(preview_ops) :
            LET op == preview_ops[k]
            IN  (op.op = "label" /\ CfgOf(op.col).label_col \in TableCols)
                   => \E d \in 1..Len(AllDocOps) :
                         /\ AllDocOps[d].op = "label"
                         /\ AllDocOps[d].col = op.col
                         /\ AllDocOps[d].row = FirstValid(df_selected, op.col) - 1
                         /\ AllDocOps[d].text = op.text

====
